---- MODULE Spec2Model ----
(***************************************************************************)
(* A model of the chess rules engine of src/main.go: the Board (grid,      *)
(* lastMove, moveCount, cached king squares), the pieces' HasMoved flags,  *)
(* and the operations Move, ValidateMove, makeMove, undoMove, IsInCheck,   *)
(* IsCheckmate and IsStalemate.                                            *)
(*                                                                         *)
(* Pieces are referenced by pointer in the source: a piece is an identity  *)
(* 1..32 here (0 is nil), its Player and Type are fixed at NewPiece, and   *)
(* its HasMoved flag lives in hasMoved[id].  A Position is <<Row, Col>>.   *)
(* A Go run-time panic (index out of range, nil dereference) ends the      *)
(* program: it is the result "panic", after which no operation runs.       *)
(***************************************************************************)
EXTENDS Integers, Sequences, FiniteSets, TLC

White == "White"
Black == "Black"

Pawn   == "Pawn"
Rook   == "Rook"
Knight == "Knight"
Bishop == "Bishop"
Queen  == "Queen"
King   == "King"

Player == {White, Black}

\* The nil piece pointer.
Nil == 0

\* Rows and columns of the [8][8] array.
BoardSize == 8

Idx == 0 .. (BoardSize - 1)

\* The squares of the grid, in the order of the source's row/col loops.
Positions == Idx \X Idx

Position(i) == << i \div BoardSize, i % BoardSize >>

\* The 32 pieces NewBoard allocates, numbered in allocation order:
\* 1..8 Black's back rank, 9..16 Black's pawns, 17..24 White's pawns,
\* 25..32 White's back rank.
PieceIds == 1 .. 32

BackRank == << Rook, Knight, Bishop, Queen, King, Bishop, Knight, Rook >>

PieceType(id) ==
    IF id <= 8 THEN BackRank[id]
    ELSE IF id <= 24 THEN Pawn
    ELSE BackRank[id - 24]

PiecePlayer(id) == IF id <= 16 THEN Black ELSE White

\* The zero value of Move (Board.lastMove of a new board).
NoMove ==
    [From |-> <<0, 0>>, To |-> <<0, 0>>, Piece |-> Nil, Captured |-> Nil,
     IsEnPassant |-> FALSE, IsCastling |-> FALSE]

\* The board NewBoard returns, as a record of the Board's fields plus the
\* HasMoved flags of the pieces it points to.
NewBoard ==
    [squares |-> [p \in Positions |->
                    IF p[1] = 0 THEN p[2] + 1
                    ELSE IF p[1] = 1 THEN 9 + p[2]
                    ELSE IF p[1] = 6 THEN 17 + p[2]
                    ELSE IF p[1] = 7 THEN 25 + p[2]
                    ELSE Nil],
     hasMoved |-> [id \in PieceIds |-> FALSE],
     lastMove |-> NoMove,
     moveCount |-> 0,
     whiteKing |-> <<7, 4>>,
     blackKing |-> <<0, 4>>]

abs(x) == IF x < 0 THEN -x ELSE x

sign(x) == IF x < 0 THEN -1 ELSE IF x > 0 THEN 1 ELSE 0

min(a, b) == IF a < b THEN a ELSE b

max(a, b) == IF a > b THEN a ELSE b

isValidPosition(pos) ==
    pos[1] >= 0 /\ pos[1] < BoardSize /\ pos[2] >= 0 /\ pos[2] < BoardSize

\* Go's bounds check of b.squares[pos.Row][pos.Col]: outside it the program
\* panics with "index out of range".
InArray(pos) == pos[1] \in Idx /\ pos[2] \in Idx

\* The error values of Move and ValidateMove; NoErr is the nil error and
\* Panic stands for a run-time panic raised inside the call.
NoErr == ""
ErrNoPiece == "no piece at source position"
ErrNotYourTurn == "it's not your turn"
ErrOutside == "destination position is outside the board"
ErrOwnPiece == "cannot capture your own piece"
ErrInvalid == "invalid move for piece"
ErrCheck == "move would leave king in check"
Panic == "panic"

RECURSIVE walkPath(_, _, _, _, _)
\* The loop of isPathClear from the square cur on.
walkPath(sq, cur, newPos, dr, dc) ==
    IF cur = newPos THEN TRUE
    ELSE IF sq[cur] # Nil THEN FALSE
    ELSE walkPath(sq, <<cur[1] + dr, cur[2] + dc>>, newPos, dr, dc)

\* A path test that never finds a piece in the way: C15 and C16 fail with
\* it.
pathAlwaysClear(B, oldPos, newPos) == TRUE

isPathClear(B, oldPos, newPos) ==
    LET dr == sign(newPos[1] - oldPos[1])
        dc == sign(newPos[2] - oldPos[2])
    IN  walkPath(B.squares, <<oldPos[1] + dr, oldPos[2] + dc>>, newPos, dr, dc)

canEnPassant(B, oldPos, newPos, player) ==
    IF B.lastMove.Piece = Nil \/ PieceType(B.lastMove.Piece) # Pawn THEN FALSE
    ELSE IF abs(B.lastMove.From[1] - B.lastMove.To[1]) # 2 THEN FALSE
    ELSE LET correctRank == IF player = Black THEN 4 ELSE 3
         IN  IF oldPos[1] # correctRank THEN FALSE
             ELSE B.lastMove.To[2] = newPos[2] /\ B.lastMove.To[1] = oldPos[1]

\* A pawn test that accepts the en-passant capture without marking the
\* move as en passant: C13 fails with it.
pawnMoveNotMarked(B, piece, oldPos, newPos, dr, dc, move) ==
    LET forward == IF PiecePlayer(piece) = Black THEN 1 ELSE -1
    IN  [ok |-> \/ (dc = 0 /\ dr = forward /\ B.squares[newPos] = Nil)
                \/ /\ ~B.hasMoved[piece]
                   /\ dc = 0
                   /\ dr = 2 * forward
                   /\ B.squares[newPos] = Nil
                   /\ B.squares[<<oldPos[1] + forward, oldPos[2]>>] = Nil
                \/ /\ dr = forward
                   /\ abs(dc) = 1
                   /\ \/ B.squares[newPos] # Nil
                      \/ canEnPassant(B, oldPos, newPos, PiecePlayer(piece)),
         move |-> move]

\* validatePawnMove: ok is the returned bool, move the Move it was handed,
\* with IsEnPassant set where the source sets it.
validatePawnMove(B, piece, oldPos, newPos, dr, dc, move) ==
    LET forward == IF PiecePlayer(piece) = Black THEN 1 ELSE -1
    IN  IF dc = 0 /\ dr = forward /\ B.squares[newPos] = Nil
          THEN [ok |-> TRUE, move |-> move]
        ELSE IF /\ ~B.hasMoved[piece]
                /\ dc = 0
                /\ dr = 2 * forward
                /\ B.squares[newPos] = Nil
                /\ B.squares[<<oldPos[1] + forward, oldPos[2]>>] = Nil
          THEN [ok |-> TRUE, move |-> move]
        ELSE IF dr = forward /\ abs(dc) = 1
          THEN IF B.squares[newPos] # Nil
                 THEN [ok |-> TRUE, move |-> move]
               ELSE IF canEnPassant(B, oldPos, newPos, PiecePlayer(piece))
                 THEN [ok |-> TRUE, move |-> [move EXCEPT !.IsEnPassant = TRUE]]
               ELSE [ok |-> FALSE, move |-> move]
        ELSE [ok |-> FALSE, move |-> move]

RECURSIVE IsInCheck(_, _)

\* The board on which validateCastling runs its second IsInCheck: the king
\* put on the intermediate square and taken from oldPos, the rest as in B.
transitBoard(B, piece, oldPos, newPos) ==
    LET row == oldPos[1]
        intermediateCol == oldPos[2] + sign(newPos[2] - oldPos[2])
    IN  [B EXCEPT !.squares = [B.squares EXCEPT
                                  ![<<row, intermediateCol>>] = piece,
                                  ![oldPos] = Nil]]

\* The king's own square is not attacked: the first IsInCheck of
\* validateCastling.
castlingKingSafe(B, piece) == ~IsInCheck(B, PiecePlayer(piece))

\* The second IsInCheck of validateCastling, run on the grid with the king
\* provisionally placed on the intermediate square (the cached king
\* position is not touched by the source).
castlingTransitSafe(B, piece, oldPos, newPos) ==
    ~IsInCheck(transitBoard(B, piece, oldPos, newPos), PiecePlayer(piece))

\* validateCastling gets as far as its IsInCheck calls: the king has not
\* moved, the move is two columns along the row, an unmoved rook stands in
\* the corner on that side and the squares between king and rook are empty.
castlingReachesCheck(B, piece, oldPos, newPos) ==
    /\ ~B.hasMoved[piece]
    /\ oldPos[1] = newPos[1]
    /\ abs(newPos[2] - oldPos[2]) = 2
    /\ LET row == oldPos[1]
           isKingSide == newPos[2] > oldPos[2]
           rookCol == IF isKingSide THEN 7 ELSE 0
           rook == B.squares[<<row, rookCol>>]
           startCol == min(oldPos[2], rookCol) + 1
           endCol == max(oldPos[2], rookCol)
       IN  /\ rook # Nil
           /\ PieceType(rook) = Rook
           /\ ~B.hasMoved[rook]
           /\ \A col \in startCol .. (endCol - 1) :
                  B.squares[<<row, col>>] = Nil

\* A castling test that accepts without marking the move as castling:
\* C12 fails with it.
castlingNotMarked(B, piece, oldPos, newPos, move) ==
    [ok |-> /\ ~B.hasMoved[piece]
            /\ oldPos[1] = newPos[1]
            /\ abs(newPos[2] - oldPos[2]) = 2,
     move |-> move]

validateCastling(B, piece, oldPos, newPos, move) ==
    IF ~castlingReachesCheck(B, piece, oldPos, newPos)
      THEN [ok |-> FALSE, move |-> move]
    ELSE IF ~castlingKingSafe(B, piece)
      THEN [ok |-> FALSE, move |-> move]
    ELSE IF ~castlingTransitSafe(B, piece, oldPos, newPos)
      THEN [ok |-> FALSE, move |-> move]
    ELSE [ok |-> TRUE, move |-> [move EXCEPT !.IsCastling = TRUE]]

\* IsValidPieceMove for a non-nil piece.
IsValidPieceMove(B, piece, oldPos, newPos, move) ==
    LET dr == newPos[1] - oldPos[1]
        dc == newPos[2] - oldPos[2]
        t == PieceType(piece)
    IN  IF t = Pawn THEN validatePawnMove(B, piece, oldPos, newPos, dr, dc, move)
        ELSE IF t = Rook
          THEN [ok |-> (dr = 0 \/ dc = 0) /\ isPathClear(B, oldPos, newPos),
                move |-> move]
        ELSE IF t = Knight
          THEN [ok |-> \/ (abs(dr) = 2 /\ abs(dc) = 1)
                       \/ (abs(dr) = 1 /\ abs(dc) = 2),
                move |-> move]
        ELSE IF t = Bishop
          THEN [ok |-> abs(dr) = abs(dc) /\ isPathClear(B, oldPos, newPos),
                move |-> move]
        ELSE IF t = Queen
          THEN [ok |-> /\ (dr = 0 \/ dc = 0 \/ abs(dr) = abs(dc))
                       /\ isPathClear(B, oldPos, newPos),
                move |-> move]
        ELSE IF abs(dr) <= 1 /\ abs(dc) <= 1 THEN [ok |-> TRUE, move |-> move]
        ELSE validateCastling(B, piece, oldPos, newPos, move)

\* The end of ValidateMove, v being what IsValidPieceMove returned for move.
validated(move, v) ==
    IF ~v.ok THEN [err |-> ErrInvalid, move |-> move]
    ELSE [err |-> NoErr, move |-> v.move]

\* ValidateMove once move is built (both grid reads succeeded).
validateBuilt(B, oldPos, newPos, currentPlayer, move) ==
    IF ~isValidPosition(newPos) THEN [err |-> ErrOutside, move |-> move]
    ELSE IF move.Captured # Nil /\ PiecePlayer(move.Captured) = currentPlayer
      THEN [err |-> ErrOwnPiece, move |-> move]
    ELSE IF move.Piece = Nil THEN [err |-> Panic, move |-> move]
    ELSE validated(move, IsValidPieceMove(B, move.Piece, oldPos, newPos, move))

\* ValidateMove returns (Move, error).  The source indexes the grid with
\* oldPos and newPos before it tests isValidPosition(newPos), and
\* IsValidPieceMove dereferences the piece at oldPos.
ValidateMove(B, oldPos, newPos, currentPlayer) ==
    IF ~InArray(oldPos) \/ ~InArray(newPos)
      THEN [err |-> Panic, move |-> NoMove]
    ELSE validateBuilt(B, oldPos, newPos, currentPlayer,
                       [From |-> oldPos, To |-> newPos,
                        Piece |-> B.squares[oldPos],
                        Captured |-> B.squares[newPos],
                        IsEnPassant |-> FALSE, IsCastling |-> FALSE])

\* The test of IsInCheck for one opposing piece, v being what ValidateMove
\* returned for its move onto the king position.
canCapture(B, piece, pos, kingPos, v) ==
    /\ v.err = NoErr
    /\ IsValidPieceMove(B, piece, pos, kingPos, v.move).ok

\* The king position IsInCheck tests: the cached one.
kingPosOf(B, player) == IF player = Black THEN B.blackKing ELSE B.whiteKing

\* IsInCheck scans the grid in row/col order and returns at the first
\* opposing piece whose move onto the cached king position validates; the
\* scan changes nothing, so its result is that some square passes.
IsInCheck(B, player) ==
    \E pos \in Positions :
        /\ B.squares[pos] # Nil
        /\ PiecePlayer(B.squares[pos]) # player
        /\ canCapture(B, B.squares[pos], pos, kingPosOf(B, player),
                      ValidateMove(B, pos, kingPosOf(B, player),
                                   PiecePlayer(B.squares[pos])))

\* makeMove applies a validated move; the statements of the source in order.
makeMove(B, move) ==
    LET row == move.From[1]
        kingSide == move.To[2] > move.From[2]
        rookFromCol == IF kingSide THEN 7 ELSE 0
        rookToCol == IF kingSide THEN 5 ELSE 3
        rook == B.squares[<<row, rookFromCol>>]
        hm1 == [B.hasMoved EXCEPT ![move.Piece] = TRUE]
        hm2 == IF move.IsCastling THEN [hm1 EXCEPT ![rook] = TRUE] ELSE hm1
        sq1 == IF move.IsCastling
                 THEN [[B.squares EXCEPT ![<<row, rookToCol>>] = rook]
                          EXCEPT ![<<row, rookFromCol>>] = Nil]
                 ELSE B.squares
        sq2 == IF move.IsEnPassant
                 THEN [sq1 EXCEPT ![<<move.From[1], move.To[2]>>] = Nil]
                 ELSE sq1
        sq3 == [[sq2 EXCEPT ![move.To] = move.Piece] EXCEPT ![move.From] = Nil]
        isKing == PieceType(move.Piece) = King
    IN  [squares |-> sq3,
         hasMoved |-> hm2,
         lastMove |-> move,
         moveCount |-> B.moveCount + 1,
         whiteKing |-> IF isKing /\ PiecePlayer(move.Piece) = White
                         THEN move.To ELSE B.whiteKing,
         blackKing |-> IF isKing /\ PiecePlayer(move.Piece) # White
                         THEN move.To ELSE B.blackKing]

\* undoMove, the statements of the source in order.  B is the board it
\* leaves; panic tells that rook.HasMoved = false dereferenced a nil rook,
\* and B is then the board at that statement.
undoMove(B, move) ==
    LET row == move.From[1]
        kingSide == move.To[2] > move.From[2]
        rookFromCol == IF kingSide THEN 5 ELSE 3
        rookToCol == IF kingSide THEN 7 ELSE 0
        sq1 == [[B.squares EXCEPT ![move.From] = move.Piece]
                   EXCEPT ![move.To] = move.Captured]
        hm1 == [B.hasMoved EXCEPT ![move.Piece] = FALSE]
        rook == sq1[<<row, rookFromCol>>]
        sq2 == IF move.IsCastling
                 THEN [[sq1 EXCEPT ![<<row, rookToCol>>] = rook]
                          EXCEPT ![<<row, rookFromCol>>] = Nil]
                 ELSE sq1
        hm2 == IF move.IsCastling /\ rook # Nil
                 THEN [hm1 EXCEPT ![rook] = FALSE] ELSE hm1
        sq3 == IF move.IsEnPassant
                 THEN [sq2 EXCEPT ![<<move.From[1], move.To[2]>>] = move.Captured]
                 ELSE sq2
        isKing == PieceType(move.Piece) = King
    IN  IF move.IsCastling /\ rook = Nil
          THEN [panic |-> TRUE,
                B |-> [B EXCEPT !.squares = sq2, !.hasMoved = hm1]]
        ELSE [panic |-> FALSE,
              B |-> [squares |-> sq3,
                     hasMoved |-> hm2,
                     lastMove |-> B.lastMove,
                     moveCount |-> B.moveCount - 1,
                     whiteKing |-> IF isKing /\ PiecePlayer(move.Piece) = White
                                     THEN move.From ELSE B.whiteKing,
                     blackKing |-> IF isKing /\ PiecePlayer(move.Piece) # White
                                     THEN move.From ELSE B.blackKing]]

\* The end of a trial: what undoMove (u) left, as the result of Move.
moveUndone(u) == [err |-> IF u.panic THEN Panic ELSE ErrCheck, B |-> u.B]

\* Move after makeMove: B1 is the board with the move applied.
moveMade(B1, move, currentPlayer) ==
    IF IsInCheck(B1, currentPlayer) THEN moveUndone(undoMove(B1, move))
    ELSE [err |-> NoErr, B |-> B1]

\* Move after ValidateMove returned v.
moveValidated(B, v, currentPlayer) ==
    IF v.err # NoErr THEN [err |-> v.err, B |-> B]
    ELSE moveMade(makeMove(B, v.move), v.move, currentPlayer)

\* Board.Move: err is the returned error and B the board it leaves.
Move(B, oldPos, newPos, currentPlayer) ==
    IF ~InArray(oldPos) THEN [err |-> Panic, B |-> B]
    ELSE IF B.squares[oldPos] = Nil THEN [err |-> ErrNoPiece, B |-> B]
    ELSE IF PiecePlayer(B.squares[oldPos]) # currentPlayer
      THEN [err |-> ErrNotYourTurn, B |-> B]
    ELSE moveValidated(B, ValidateMove(B, oldPos, newPos, currentPlayer),
                       currentPlayer)

\* One trial of the search loops of IsCheckmate and IsStalemate: makeMove
\* left B1, IsInCheck returned inCheck, then undoMove returned u.
\* stop: the search ends here (it returns false, or panicked).
trialResult(inCheck, u) ==
    [stop |-> u.panic \/ ~inCheck, panic |-> u.panic, B |-> u.B]

trialMade(B1, move, player) ==
    trialResult(IsInCheck(B1, player), undoMove(B1, move))

\* One iteration of the innermost loop body: ValidateMove returned v.
trial(B, v, player) ==
    IF v.err = Panic THEN [stop |-> TRUE, panic |-> TRUE, B |-> B]
    ELSE IF v.err # NoErr THEN [stop |-> FALSE, panic |-> FALSE, B |-> B]
    ELSE trialMade(makeMove(B, v.move), v.move, player)

\* The loops of IsCheckmate and IsStalemate run their iterations in order
\* and end at the first one that returns or panics.  A run of iterations
\* lo .. hi-1 is modelled as the run lo .. mid-1 followed, when that did not
\* stop, by the run mid .. hi-1 from the board it left.
Mid(lo, hi) == (lo + hi) \div 2

NoStop(B) == [stop |-> FALSE, panic |-> FALSE, B |-> B]

RECURSIVE checkmateDests(_, _, _, _, _)

checkmateDestsRest(t, player, oldPos, mid, hi) ==
    IF t.stop THEN t ELSE checkmateDests(t.B, player, oldPos, mid, hi)

\* The two inner loops of IsCheckmate (newRow, newCol) for the source
\* square oldPos: destinations Position(lo) .. Position(hi-1).
checkmateDests(B, player, oldPos, lo, hi) ==
    IF hi = lo + 1
      THEN trial(B, ValidateMove(B, oldPos, Position(lo), player), player)
    ELSE checkmateDestsRest(
             checkmateDests(B, player, oldPos, lo, Mid(lo, hi)),
             player, oldPos, Mid(lo, hi), hi)

RECURSIVE checkmateFroms(_, _, _, _)

checkmateFromsRest(t, player, mid, hi) ==
    IF t.stop THEN t ELSE checkmateFroms(t.B, player, mid, hi)

\* The two outer loops of IsCheckmate (row, col): sources Position(lo) ..
\* Position(hi-1).
checkmateFroms(B, player, lo, hi) ==
    IF hi = lo + 1
      THEN IF B.squares[Position(lo)] # Nil
              /\ PiecePlayer(B.squares[Position(lo)]) = player
             THEN checkmateDests(B, player, Position(lo), 0,
                                 BoardSize * BoardSize)
           ELSE NoStop(B)
    ELSE checkmateFromsRest(checkmateFroms(B, player, lo, Mid(lo, hi)),
                            player, Mid(lo, hi), hi)

\* What the search returns: false where an iteration returned, true when
\* the loops ran out.
searched(t) == [ret |-> ~t.stop, panic |-> t.panic, B |-> t.B]

\* Board.IsCheckmate: ret is the returned bool, B the board it leaves.
IsCheckmate(B, player) ==
    IF ~IsInCheck(B, player) THEN [ret |-> FALSE, panic |-> FALSE, B |-> B]
    ELSE searched(checkmateFroms(B, player, 0, BoardSize * BoardSize))

RECURSIVE stalemateDests(_, _, _, _, _)

stalemateDestsRest(t, player, oldPos, mid, hi) ==
    IF t.stop THEN t ELSE stalemateDests(t.B, player, oldPos, mid, hi)

\* The inner loops of IsStalemate, as checkmateDests.
stalemateDests(B, player, oldPos, lo, hi) ==
    IF hi = lo + 1
      THEN trial(B, ValidateMove(B, oldPos, Position(lo), player), player)
    ELSE stalemateDestsRest(
             stalemateDests(B, player, oldPos, lo, Mid(lo, hi)),
             player, oldPos, Mid(lo, hi), hi)

RECURSIVE stalemateFroms(_, _, _, _)

stalemateFromsRest(t, player, mid, hi) ==
    IF t.stop THEN t ELSE stalemateFroms(t.B, player, mid, hi)

\* The outer loops of IsStalemate, as checkmateFroms.
stalemateFroms(B, player, lo, hi) ==
    IF hi = lo + 1
      THEN IF B.squares[Position(lo)] # Nil
              /\ PiecePlayer(B.squares[Position(lo)]) = player
             THEN stalemateDests(B, player, Position(lo), 0,
                                 BoardSize * BoardSize)
           ELSE NoStop(B)
    ELSE stalemateFromsRest(stalemateFroms(B, player, lo, Mid(lo, hi)),
                            player, Mid(lo, hi), hi)

\* Board.IsStalemate: ret is the returned bool, B the board it leaves.
IsStalemate(B, player) ==
    IF IsInCheck(B, player) THEN [ret |-> FALSE, panic |-> FALSE, B |-> B]
    ELSE searched(stalemateFroms(B, player, 0, BoardSize * BoardSize))

(***************************************************************************)
(* The program state: the fields of the one Board the program holds and    *)
(* the HasMoved flags of its pieces.  With it, the last call made on the   *)
(* board (op), the player it was made for (who) and what it returned       *)
(* (ret), and two history variables the source does not keep: applied is   *)
(* the move of the last Move call that returned nil, relocated the pieces  *)
(* that Move calls returning nil have put on another square.  Of main,     *)
(* currentPlayer and the position pc in its loop: the name of the call or  *)
(* read it stands before, or "exit" once the loop is left.  moveHistory    *)
(* is only printed and is left out.                                        *)
(***************************************************************************)
VARIABLES squares, hasMoved, lastMove, moveCount, whiteKing, blackKing,
          op, who, ret, applied, relocated, currentPlayer, pc

boardVars == <<squares, hasMoved, lastMove, moveCount, whiteKing, blackKing>>

mainVars == <<currentPlayer, pc>>

vars == <<squares, hasMoved, lastMove, moveCount, whiteKing, blackKing,
          op, who, ret, applied, relocated, currentPlayer, pc>>

\* The board as the operators above take it.
Cur ==
    [squares |-> squares, hasMoved |-> hasMoved, lastMove |-> lastMove,
     moveCount |-> moveCount, whiteKing |-> whiteKing, blackKing |-> blackKing]

Becomes(B) ==
    /\ squares' = B.squares
    /\ hasMoved' = B.hasMoved
    /\ lastMove' = B.lastMove
    /\ moveCount' = B.moveCount
    /\ whiteKing' = B.whiteKing
    /\ blackKing' = B.blackKing

\* Bound on the number of moves applied to the board.
MaxMoves == 12

BoolStr(x) == IF x THEN "true" ELSE "false"

\* The program runs (no panic has ended it).
Running == ret # Panic

Init ==
    /\ squares = NewBoard.squares
    /\ hasMoved = NewBoard.hasMoved
    /\ lastMove = NewBoard.lastMove
    /\ moveCount = NewBoard.moveCount
    /\ whiteKing = NewBoard.whiteKing
    /\ blackKing = NewBoard.blackKing
    /\ op = "NewBoard"
    /\ who = White
    /\ ret = NoErr
    /\ applied = NoMove
    /\ relocated = {}
    /\ currentPlayer = White
    /\ pc = "IsCheckmate"

\* The call name, made for player, returned value and left the board B.
Returns(name, player, B, value) ==
    /\ Becomes(B)
    /\ op' = name
    /\ who' = player
    /\ ret' = value

\* The pieces that stand on a square of sq where they did not stand before.
Arrived(sq) ==
    { sq[p] : p \in { q \in Positions : sq[q] # Nil /\ sq[q] # squares[q] } }

moveReturns(r, player) ==
    /\ Returns("Move", player, r.B, r.err)
    /\ applied' = IF r.err = NoErr THEN r.B.lastMove ELSE applied
    /\ relocated' = IF r.err = NoErr THEN relocated \cup Arrived(r.B.squares)
                    ELSE relocated

queryReturns(name, player, r) ==
    /\ Returns(name, player, r.B, IF r.panic THEN Panic ELSE BoolStr(r.ret))
    /\ UNCHANGED <<applied, relocated>>

\* A call board.Move(oldPos, newPos, player).
DoMove(oldPos, newPos, player) ==
    /\ Running
    /\ moveCount < MaxMoves
    /\ moveReturns(Move(Cur, oldPos, newPos, player), player)
    /\ UNCHANGED mainVars

\* A call board.IsInCheck(player).
DoIsInCheck(player) ==
    /\ Running
    /\ op' = "IsInCheck"
    /\ who' = player
    /\ ret' = BoolStr(IsInCheck(Cur, player))
    /\ UNCHANGED <<boardVars, applied, relocated, mainVars>>

\* A call board.IsCheckmate(player).
DoIsCheckmate(player) ==
    /\ Running
    /\ queryReturns("IsCheckmate", player, IsCheckmate(Cur, player))
    /\ UNCHANGED mainVars

\* A call board.IsStalemate(player).
DoIsStalemate(player) ==
    /\ Running
    /\ queryReturns("IsStalemate", player, IsStalemate(Cur, player))
    /\ UNCHANGED mainVars

\* Algebraic square names: file a..h is column 0..7, rank 8..1 is row 0..7
\* (ParseMove).
a8 == <<0, 0>>
b8 == <<0, 1>>
c8 == <<0, 2>>
d8 == <<0, 3>>
e8 == <<0, 4>>
f8 == <<0, 5>>
g8 == <<0, 6>>
h8 == <<0, 7>>
b7 == <<1, 1>>
d7 == <<1, 3>>
e7 == <<1, 4>>
g7 == <<1, 6>>
h7 == <<1, 7>>
a6 == <<2, 0>>
c6 == <<2, 2>>
d6 == <<2, 3>>
e6 == <<2, 4>>
f6 == <<2, 5>>
g6 == <<2, 6>>
h6 == <<2, 7>>
a5 == <<3, 0>>
b5 == <<3, 1>>
d5 == <<3, 3>>
e5 == <<3, 4>>
f5 == <<3, 5>>
b4 == <<4, 1>>
c4 == <<4, 2>>
d4 == <<4, 3>>
e4 == <<4, 4>>
g4 == <<4, 6>>
h4 == <<4, 7>>
a3 == <<5, 0>>
b3 == <<5, 1>>
c3 == <<5, 2>>
d3 == <<5, 3>>
e3 == <<5, 4>>
f3 == <<5, 5>>
h3 == <<5, 7>>
a2 == <<6, 0>>
b2 == <<6, 1>>
d2 == <<6, 3>>
e2 == <<6, 4>>
f2 == <<6, 5>>
g2 == <<6, 6>>
a1 == <<7, 0>>
b1 == <<7, 1>>
c1 == <<7, 2>>
d1 == <<7, 3>>
e1 == <<7, 4>>
f1 == <<7, 5>>

(***************************************************************************)
(* First specification: an opening.  The calls of Move are drawn from a    *)
(* set holding both en-passant shapes, a queen check on h4, and an input   *)
(* for each rejection of Move; the queries are called at any time.         *)
(***************************************************************************)
OpeningInputs ==
    { <<e7, e5, Black>>, <<d8, h4, Black>>, <<f2, f3, White>>,
      <<b7, b5, Black>>, <<b5, b4, Black>>, <<b4, a3, Black>>,
      <<e2, <<8, 4>>, White>>,
      <<a1, a2, White>>, <<a1, a5, White>>, <<e7, e5, White>> }

OpeningMove == \E m \in OpeningInputs : DoMove(m[1], m[2], m[3])

Next ==
    \/ OpeningMove
    \/ \E p \in Player : DoIsInCheck(p)
    \/ \E p \in Player : DoIsCheckmate(p)
    \/ \E p \in Player : DoIsStalemate(p)

Spec == Init /\ [][Next]_vars

(***************************************************************************)
(* Second specification: Move is the only call, drawn from a set that      *)
(* leads to an en-passant capture by a pawn that has moved.                *)
(***************************************************************************)
EnPassantInputs ==
    { <<e2, e4, White>>, <<e4, e5, White>>, <<d7, d5, Black>>,
      <<e5, d6, White>>, <<e7, e6, Black>>, <<d5, d4, Black>>,
      <<d8, d7, Black>>, <<f1, b5, White>> }

MoveNext == \E m \in EnPassantInputs : DoMove(m[1], m[2], m[3])

MoveSpec == Init /\ [][MoveNext]_vars

(***************************************************************************)
(* Third specification: Black castles king-side.  White's bishop reaches   *)
(* a3, from where it attacks f8 once e7 is empty; Black's king may first   *)
(* step to e7 and back, and may try f8.                                    *)
(***************************************************************************)
CastleInputs ==
    { <<b2, b3, White>>, <<c1, a3, White>>,
      <<e7, e6, Black>>, <<g7, g6, Black>>, <<f8, h6, Black>>,
      <<g8, f6, Black>>, <<e8, g8, Black>>,
      <<e8, e7, Black>>, <<e7, e8, Black>>, <<e8, f8, Black>> }

CastleNext == \E m \in CastleInputs : DoMove(m[1], m[2], m[3])

CastleSpec == Init /\ [][CastleNext]_vars

(***************************************************************************)
(* Fourth specification: White's queen takes b7 while Black clears b8, c8  *)
(* and d8 and steps the king to d8, from where it tries c8 and b8.         *)
(***************************************************************************)
QueenSideInputs ==
    { <<e2, e3, White>>, <<d1, f3, White>>, <<f3, b7, White>>,
      <<b8, a6, Black>>, <<d7, d6, Black>>, <<c8, e6, Black>>,
      <<d8, d7, Black>>, <<e8, d8, Black>>, <<d8, c8, Black>>,
      <<d8, b8, Black>>, <<h7, h6, Black>> }

QueenSideNext == \E m \in QueenSideInputs : DoMove(m[1], m[2], m[3])

QueenSideSpec == Init /\ [][QueenSideNext]_vars

(***************************************************************************)
(* Fifth specification: the fourth one's moves with White's bishop taking  *)
(* the knight on a6 behind the queen, and Black asked whether it is        *)
(* checkmated or stalemated.                                               *)
(***************************************************************************)
MateInputs ==
    { <<e2, e3, White>>, <<d1, f3, White>>, <<f3, b7, White>>,
      <<f1, a6, White>>,
      <<b8, a6, Black>>, <<d7, d6, Black>>, <<c8, e6, Black>>,
      <<d8, d7, Black>>, <<e8, d8, Black>>, <<d8, c8, Black>>,
      <<d8, b8, Black>> }

MateNext ==
    \/ \E m \in MateInputs : DoMove(m[1], m[2], m[3])
    \/ DoIsCheckmate(Black)
    \/ DoIsStalemate(Black)

MateSpec == Init /\ [][MateNext]_vars

(***************************************************************************)
(* The game loop of main.  A line of input is the sequence of its bytes.   *)
(***************************************************************************)
ErrFormat == "invalid move format (example: e2-e4)"
ErrPosition == "invalid position"

\* strings.ToLower on a byte of ASCII text.
ToLower(b) == IF b >= 65 /\ b <= 90 THEN b + 32 ELSE b

\* The white space strings.TrimSpace removes (tab .. carriage return, space).
IsSpace(b) == (b >= 9 /\ b <= 13) \/ b = 32

RECURSIVE TrimLeft(_)
TrimLeft(s) == IF s # << >> /\ IsSpace(Head(s)) THEN TrimLeft(Tail(s)) ELSE s

RECURSIVE TrimRight(_)
TrimRight(s) ==
    IF s # << >> /\ IsSpace(s[Len(s)]) THEN TrimRight(SubSeq(s, 1, Len(s) - 1))
    ELSE s

TrimSpace(s) == TrimRight(TrimLeft(s))

\* notation[i] - c in Go's byte arithmetic, converted to int.
ByteDiff(b, c) == (b - c) % 256

\* ParseMove once the notation is trimmed and lowered.
parseLowered(n) ==
    IF Len(n) # 5 \/ n[3] # 45
      THEN [oldPos |-> <<0, 0>>, newPos |-> <<0, 0>>, err |-> ErrFormat]
    ELSE LET fromCol == ByteDiff(n[1], 97)
             fromRow == 8 - ByteDiff(n[2], 48)
             toCol == ByteDiff(n[4], 97)
             toRow == 8 - ByteDiff(n[5], 48)
         IN  IF ~isValidPosition(<<fromRow, fromCol>>)
                \/ ~isValidPosition(<<toRow, toCol>>)
               THEN [oldPos |-> <<0, 0>>, newPos |-> <<0, 0>>,
                     err |-> ErrPosition]
             ELSE [oldPos |-> <<fromRow, fromCol>>,
                   newPos |-> <<toRow, toCol>>, err |-> NoErr]

ParseMove(notation) ==
    parseLowered([i \in 1 .. Len(TrimSpace(notation)) |->
                     ToLower(TrimSpace(notation)[i])])

\* The lines "quit" and "help".
Quit == <<113, 117, 105, 116>>
Help == <<104, 101, 108, 112>>

\* The line a player types for the move from oldPos to newPos: file
\* letter, rank digit, '-', file letter, rank digit.
Notation(oldPos, newPos) ==
    <<97 + oldPos[2], 48 + (8 - oldPos[1]), 45,
      97 + newPos[2], 48 + (8 - newPos[1])>>

\* A loop that forgets to switch the player: C11 fails with it.
SamePlayer(player) == player

\* currentPlayer = 1 - currentPlayer.
Opponent(player) == IF player = White THEN Black ELSE White

\* if board.IsCheckmate(currentPlayer) { ...; break }
LoopIsCheckmate ==
    /\ Running
    /\ pc = "IsCheckmate"
    /\ queryReturns("IsCheckmate", currentPlayer,
                    IsCheckmate(Cur, currentPlayer))
    /\ pc' = IF ret' = "false" THEN "IsStalemate" ELSE "exit"
    /\ UNCHANGED currentPlayer

\* if board.IsStalemate(currentPlayer) { ...; break }
LoopIsStalemate ==
    /\ Running
    /\ pc = "IsStalemate"
    /\ queryReturns("IsStalemate", currentPlayer,
                    IsStalemate(Cur, currentPlayer))
    /\ pc' = IF ret' = "false" THEN "IsInCheck" ELSE "exit"
    /\ UNCHANGED currentPlayer

\* if board.IsInCheck(currentPlayer) { print }
LoopIsInCheck ==
    /\ Running
    /\ pc = "IsInCheck"
    /\ op' = "IsInCheck"
    /\ who' = currentPlayer
    /\ ret' = BoolStr(IsInCheck(Cur, currentPlayer))
    /\ pc' = "Scan"
    /\ UNCHANGED <<boardVars, applied, relocated, currentPlayer>>

\* A step of main that calls nothing on the board.
mainStep(name, value, next) ==
    /\ op' = name
    /\ who' = currentPlayer
    /\ ret' = value
    /\ pc' = next
    /\ UNCHANGED <<boardVars, applied, relocated, currentPlayer>>

\* board.Move for the parsed line, then "Switch player" when it returned
\* nil; on an error the loop continues with the same player.
loopMove(parsed) ==
    /\ moveReturns(Move(Cur, parsed.oldPos, parsed.newPos, currentPlayer),
                   currentPlayer)
    /\ currentPlayer' = IF ret' = NoErr THEN Opponent(currentPlayer)
                        ELSE currentPlayer
    /\ pc' = IF ret' = Panic THEN "exit" ELSE "IsCheckmate"

loopParsed(parsed) ==
    IF parsed.err # NoErr THEN mainStep("ParseMove", parsed.err, "IsCheckmate")
    ELSE loopMove(parsed)

\* scanner.Scan() returned the line moveStr: the rest of the loop body.
\* (The line read after an error message is dropped by the source and has
\* no effect.)
LoopScan(moveStr) ==
    /\ Running
    /\ pc = "Scan"
    /\ moveCount < MaxMoves
    /\ IF moveStr = Quit THEN mainStep("quit", NoErr, "exit")
       ELSE IF moveStr = Help THEN mainStep("help", NoErr, "IsCheckmate")
       ELSE loopParsed(ParseMove(moveStr))

\* scanner.Scan() returned false: break.
LoopEndOfInput ==
    /\ Running
    /\ pc = "Scan"
    /\ mainStep("Scan", NoErr, "exit")

(***************************************************************************)
(* Sixth specification: the program as it runs, main's loop reading lines  *)
(* of input.  The lines hold the fool's mate, an en-passant capture for    *)
(* Black after e2-e4, a two-square advance of the pawn on f3, a move       *)
(* written in upper case with a space after it, and lines ParseMove        *)
(* rejects.                                                                *)
(***************************************************************************)
GameLines ==
    { Notation(f2, f3), Notation(e7, e5), Notation(g2, g4), Notation(d8, h4),
      Notation(d7, d5), Notation(d5, d4), Notation(e2, e4), Notation(d4, e3),
      Notation(f3, f5),
      <<69, 55, 45, 69, 53, 32>>,
      <<101, 50, 101, 52>>,
      <<101, 50, 45, 101, 57>>,
      <<105, 50, 45, 101, 52>>,
      Quit, Help }

GameNext ==
    \/ LoopIsCheckmate
    \/ LoopIsStalemate
    \/ LoopIsInCheck
    \/ \E moveStr \in GameLines : LoopScan(moveStr)
    \/ LoopEndOfInput

GameSpec == Init /\ [][GameNext]_vars

(***************************************************************************)
(* Seventh specification: Black castles king-side and White queen-side,    *)
(* once the squares between king and rook are cleared.                     *)
(***************************************************************************)
BothSidesInputs ==
    { <<g8, f6, Black>>, <<e7, e6, Black>>, <<f8, e7, Black>>,
      <<e8, g8, Black>>,
      <<b1, c3, White>>, <<d2, d3, White>>, <<c1, e3, White>>,
      <<d1, d2, White>>, <<e1, c1, White>> }

BothSidesNext == \E m \in BothSidesInputs : DoMove(m[1], m[2], m[3])

BothSidesSpec == Init /\ [][BothSidesNext]_vars

(***************************************************************************)
(* Eighth specification: a long game in two parts.  In the opening Black   *)
(* develops and is left, by the rejected castling d8-b8, with its king on  *)
(* a8 and its cached king position on d8.  Then White's queen takes that   *)
(* king and steps to c6, and White's king walks from e1 to b8.  IsInCheck  *)
(* is called at any time.                                                  *)
(***************************************************************************)
\* Bound on the number of moves applied to the board in the long game.
MaxWalkMoves == 20

\* The number of moves of the first part.
DevelopMoves == 10

\* A call board.Move(oldPos, newPos, player) of the long game.
DoWalkMove(oldPos, newPos, player) ==
    /\ Running
    /\ moveCount < MaxWalkMoves
    /\ moveReturns(Move(Cur, oldPos, newPos, player), player)
    /\ UNCHANGED mainVars

DevelopInputs ==
    { <<b8, a6, Black>>, <<d7, d6, Black>>, <<c8, h3, Black>>,
      <<d8, d7, Black>>, <<e8, d8, Black>>, <<g7, g6, Black>>,
      <<f8, g7, Black>>, <<d8, c8, Black>>, <<d8, b8, Black>>,
      <<e2, e3, White>>, <<d1, f3, White>>, <<f3, b7, White>> }

WalkInputs ==
    { <<b7, a8, White>>, <<a8, c6, White>>,
      <<e1, e2, White>>, <<e2, d3, White>>, <<d3, c4, White>>,
      <<c4, b5, White>>, <<b5, a6, White>>, <<a6, b7, White>>,
      <<b7, b8, White>>, <<b8, c8, White>>,
      <<g8, f6, Black>> }

\* The moves the caller may ask for after n moves were applied.
KingWalkInputs(n) == IF n < DevelopMoves THEN DevelopInputs ELSE WalkInputs

KingWalkNext ==
    \/ \E m \in KingWalkInputs(moveCount) : DoWalkMove(m[1], m[2], m[3])
    \/ \E p \in Player : DoIsInCheck(p)

KingWalkSpec == Init /\ [][KingWalkNext]_vars

(***************************************************************************)
(* Properties.  Each is stated over the calls as they are observed: a step *)
(* whose op' is the call and ret' what it returned, the unprimed variables *)
(* being the board before the call.                                        *)
(***************************************************************************)

\* The errors Move returns.
MoveErrors ==
    {ErrNoPiece, ErrNotYourTurn, ErrOutside, ErrOwnPiece, ErrInvalid, ErrCheck}

\* The squares of the grid that hold a king of player.
KingSquares(sq, player) ==
    { p \in Positions :
        sq[p] # Nil /\ PieceType(sq[p]) = King /\ PiecePlayer(sq[p]) = player }

\* The board B with player's king position recorded as pos.
KingCachedAt(B, player, pos) ==
    IF player = Black THEN [B EXCEPT !.blackKing = pos]
    ELSE [B EXCEPT !.whiteKing = pos]

\* An opposing piece can capture player's king on a square of the grid
\* where it stands.
Attacked(B, player) ==
    \E k \in KingSquares(B.squares, player) :
        IsInCheck(KingCachedAt(B, player, k), player)

\* The move ValidateMove returned in v is accepted and, made on B, leaves
\* player's king unattacked.
LeavesKingSafe(B, player, v) ==
    v.err = NoErr /\ ~Attacked(makeMove(B, v.move), player)

\* player has a legal move on B.
HasLegalMove(B, player) ==
    \E oldPos \in Positions : \E newPos \in Positions :
        /\ B.squares[oldPos] # Nil
        /\ PiecePlayer(B.squares[oldPos]) = player
        /\ LeavesKingSafe(B, player, ValidateMove(B, oldPos, newPos, player))

\* C1: whenever Move returns an error (no piece, not your turn, outside the
\* board, own piece, invalid move, king left in check), the grid, every
\* HasMoved flag, lastMove, moveCount and both cached king positions are
\* what they were before the call.
C1_RejectedMoveLeavesBoard ==
    [][(op' = "Move" /\ ret' \in MoveErrors) => UNCHANGED boardVars]_vars

\* The board u.B that undoMove left has the grid occupancy, the cached king
\* positions and the moveCount of B.
Restored(B, u) ==
    /\ ~u.panic
    /\ u.B.squares = B.squares
    /\ u.B.whiteKing = B.whiteKing
    /\ u.B.blackKing = B.blackKing
    /\ u.B.moveCount = B.moveCount

\* makeMove then undoMove of the move ValidateMove returned in v.
RoundTrip(B, v) ==
    v.err = NoErr => Restored(B, undoMove(makeMove(B, v.move), v.move))

\* C2: in every state reached through Move calls, for every move that
\* ValidateMove accepts and whose piece has been moved before (en-passant
\* captures included), makeMove followed by undoMove restores the 64
\* squares, both cached king positions and moveCount.
C2_MakeUndoRoundTrip ==
    Running =>
        \A oldPos \in Positions : \A newPos \in Positions :
            (squares[oldPos] # Nil /\ squares[oldPos] \in relocated)
                => RoundTrip(Cur, ValidateMove(Cur, oldPos, newPos,
                                               PiecePlayer(squares[oldPos])))

\* C3: after every Move that returns nil for a player, no opposing piece
\* attacks that player's king.
C3_NoSelfCheckAfterMove ==
    (Running /\ op = "Move" /\ ret = NoErr) => ~Attacked(Cur, who)

\* The step is a Move that returned nil for a king going two columns along
\* its row.
CastlingAccepted ==
    /\ op' = "Move"
    /\ ret' = NoErr
    /\ PieceType(lastMove'.Piece) = King
    /\ lastMove'.From[1] = lastMove'.To[1]
    /\ abs(lastMove'.To[2] - lastMove'.From[2]) = 2

\* The board B with the king piece taken from oldPos and standing on pos.
KingPlacedOn(B, piece, oldPos, pos) ==
    KingCachedAt([B EXCEPT !.squares = [B.squares EXCEPT ![oldPos] = Nil,
                                                         ![pos] = piece]],
                 PiecePlayer(piece), pos)

\* The square the king of move passes over, between From and To.
TransitSquare(move) ==
    <<move.From[1], move.From[2] + sign(move.To[2] - move.From[2])>>

\* C4: a castling move is rejected whenever an opposing piece attacks the
\* square the king passes over, also when neither the king's square nor
\* its destination is attacked: Move accepts one only when the king,
\* standing on the square passed over, would not be in check.
C4_CastlingThroughAttackRejected ==
    [][CastlingAccepted
       => ~IsInCheck(KingPlacedOn(Cur, lastMove'.Piece, lastMove'.From,
                                  TransitSquare(lastMove')),
                     PiecePlayer(lastMove'.Piece))]_vars

\* The rook a castling move goes with: the piece in the corner of the
\* king's row on the side the king moves to.
CastlingRook(sq, move) ==
    sq[<<move.From[1], IF move.To[2] > move.From[2] THEN BoardSize - 1 ELSE 0>>]

\* C5: once a successful Move has relocated a king or a rook, no castling
\* with that king or with that rook is accepted any more, whatever rejected
\* Moves and IsCheckmate/IsStalemate calls came between.
C5_NoCastlingAfterRelocation ==
    [][CastlingAccepted
       => /\ lastMove'.Piece \notin relocated
          /\ CastlingRook(squares, lastMove') \notin relocated]_vars

\* C6: Move accepts a pawn's diagonal move onto an empty square only if the
\* most recent move it applied was an opposing pawn's two-square advance
\* that landed beside the capturing pawn, in the column of the destination,
\* and that pawn is the one taken off the board.
C6_EnPassantOnlyAfterDoubleStep ==
    [][(/\ op' = "Move"
        /\ ret' = NoErr
        /\ PieceType(lastMove'.Piece) = Pawn
        /\ lastMove'.From[2] # lastMove'.To[2]
        /\ squares[lastMove'.To] = Nil)
       => (/\ applied.Piece # Nil
           /\ PieceType(applied.Piece) = Pawn
           /\ PiecePlayer(applied.Piece) # PiecePlayer(lastMove'.Piece)
           /\ applied.From[2] = applied.To[2]
           /\ abs(applied.To[1] - applied.From[1]) = 2
           /\ applied.To = <<lastMove'.From[1], lastMove'.To[2]>>
           /\ squares[applied.To] = applied.Piece
           /\ squares'[applied.To] = Nil)]_vars

\* C7: between calls the grid holds exactly one king of each player, on the
\* squares whiteKing and blackKing.
C7_OneKingEachWhereCached ==
    Running => /\ KingSquares(squares, White) = {whiteKing}
               /\ KingSquares(squares, Black) = {blackKing}

\* Destinations one step outside the grid on either side.
OutsideDests ==
    { pos \in (-1 .. BoardSize) \X (-1 .. BoardSize) : ~isValidPosition(pos) }

\* C8: ValidateMove and Move, called for a piece of the player with a
\* destination outside the board, return the "destination position is
\* outside the board" error, and Move leaves the board as it was; neither
\* panics.
C8_OutsideDestinationRejected ==
    Running =>
        \A oldPos \in Positions : \A newPos \in OutsideDests :
            squares[oldPos] # Nil =>
                /\ ValidateMove(Cur, oldPos, newPos,
                                PiecePlayer(squares[oldPos])).err = ErrOutside
                /\ Move(Cur, oldPos, newPos, PiecePlayer(squares[oldPos]))
                       = [err |-> ErrOutside, B |-> Cur]

\* C9: IsCheckmate(P) returns true exactly when P's king is attacked and no
\* move of P that is legal on the board of the call leaves it unattacked
\* (whatever the order the moves are tried in); so false whenever P is not
\* in check.
C9_CheckmateExact ==
    [][op' = "IsCheckmate"
       => ret' = BoolStr(Attacked(Cur, who') /\ ~HasLegalMove(Cur, who'))]_vars

\* C10: IsStalemate(P) returns true when P is not in check and has no legal
\* move, and false when P is in check or has a legal move; IsCheckmate(P)
\* returns false when P is not in check and has no legal move.
C10_StalemateExact ==
    [][/\ op' = "IsStalemate"
          => ret' = BoolStr(~Attacked(Cur, who') /\ ~HasLegalMove(Cur, who'))
       /\ (op' = "IsCheckmate" /\ ~Attacked(Cur, who')
                               /\ ~HasLegalMove(Cur, who'))
          => ret' = "false"]_vars

\* C11: in the game loop currentPlayer changes exactly in the steps where
\* Move returns nil, and stays after a rejected Move, a line ParseMove
\* rejects, help and the queries; every move applied is made by a piece of
\* currentPlayer, and the move applied before it was made by the other side.
C11_TurnAlternates ==
    [][/\ (currentPlayer' # currentPlayer) <=> (op' = "Move" /\ ret' = NoErr)
       /\ (op' = "Move" /\ ret' = NoErr)
          => /\ PiecePlayer(applied'.Piece) = currentPlayer
             /\ applied.Piece # Nil
                => PiecePlayer(applied.Piece) # currentPlayer]_vars

\* Black has answered White's first move, and the loop is back at its top
\* with White to move.
C11_Witness ==
    /\ pc = "IsCheckmate"
    /\ op = "Move"
    /\ ret = NoErr
    /\ moveCount = 2
    /\ currentPlayer = White
    /\ PiecePlayer(applied.Piece) = Black

\* The column the king (rook) of a castling move ends on.
KingToCol(move) == IF move.To[2] > move.From[2] THEN 6 ELSE 2

RookToCol(move) == IF move.To[2] > move.From[2] THEN 5 ELSE 3

RookFromCol(move) == IF move.To[2] > move.From[2] THEN BoardSize - 1 ELSE 0

\* C12: when Move accepts castling for a king on column 4 whose HasMoved is
\* false, with a rook whose HasMoved is false in the corner of its rank,
\* then after Move the king stands on column 6 (king-side) or 2
\* (queen-side), the rook on column 5 or 3, the squares both came from
\* are empty, no other square has changed, both HasMoved flags are true
\* and the cached king position is the king's new square.
C12_CastlingEffects ==
    [][(/\ CastlingAccepted
        /\ lastMove'.From[2] = 4
        /\ ~hasMoved[lastMove'.Piece]
        /\ CastlingRook(squares, lastMove') # Nil
        /\ PieceType(CastlingRook(squares, lastMove')) = Rook
        /\ ~hasMoved[CastlingRook(squares, lastMove')])
       => (/\ lastMove'.To[2] = KingToCol(lastMove')
           /\ squares' =
                [p \in Positions |->
                   IF p = lastMove'.To THEN lastMove'.Piece
                   ELSE IF p = <<lastMove'.From[1], RookToCol(lastMove')>>
                     THEN CastlingRook(squares, lastMove')
                   ELSE IF p = lastMove'.From
                           \/ p = <<lastMove'.From[1], RookFromCol(lastMove')>>
                     THEN Nil
                   ELSE squares[p]]
           /\ hasMoved'[lastMove'.Piece]
           /\ hasMoved'[CastlingRook(squares, lastMove')]
           /\ kingPosOf(Cur, PiecePlayer(lastMove'.Piece)) = lastMove'.From
           /\ (IF PiecePlayer(lastMove'.Piece) = Black THEN blackKing'
               ELSE whiteKing') = lastMove'.To)]_vars

\* White has castled queen-side after Black castled king-side.
C12_Witness ==
    /\ op = "Move"
    /\ ret = NoErr
    /\ lastMove.IsCastling
    /\ squares[c1] # Nil /\ PieceType(squares[c1]) = King
    /\ squares[d1] # Nil /\ PieceType(squares[d1]) = Rook
    /\ squares[g8] # Nil /\ PieceType(squares[g8]) = King
    /\ squares[f8] # Nil /\ PieceType(squares[f8]) = Rook

\* The step is a Move that returned nil for a pawn going diagonally onto a
\* square that was empty: an en-passant capture.
EnPassantAccepted ==
    /\ op' = "Move"
    /\ ret' = NoErr
    /\ PieceType(lastMove'.Piece) = Pawn
    /\ lastMove'.From[2] # lastMove'.To[2]
    /\ squares[lastMove'.To] = Nil

\* C13: an accepted en-passant capture puts the capturing pawn on its
\* destination, which was empty, and empties the pawn's source square and
\* the square at (source row, destination column); every other square
\* keeps its content.
C13_EnPassantFrame ==
    [][EnPassantAccepted
       => /\ squares[lastMove'.From] = lastMove'.Piece
          /\ squares' =
               [p \in Positions |->
                  IF p = lastMove'.To THEN lastMove'.Piece
                  ELSE IF p = lastMove'.From
                          \/ p = <<lastMove'.From[1], lastMove'.To[2]>>
                    THEN Nil
                  ELSE squares[p]]]_vars

\* White's pawn has taken Black's d-pawn en passant on d6: the pawn that
\* stood on d5 is on no square.
C13_Witness ==
    /\ op = "Move"
    /\ ret = NoErr
    /\ lastMove.IsEnPassant
    /\ lastMove.To = d6
    /\ squares[d5] = Nil
    /\ \A p \in Positions : squares[p] # NewBoard.squares[d7]

\* The step is a Move that returned nil for a pawn going two rows.
DoubleStepAccepted ==
    /\ op' = "Move"
    /\ ret' = NoErr
    /\ PieceType(lastMove'.Piece) = Pawn
    /\ abs(lastMove'.To[1] - lastMove'.From[1]) = 2

\* C14: Move accepts a pawn's two-square advance only for a pawn that no
\* successful Move has relocated, along its column, with the square passed
\* over and the destination empty; whatever calls came before.
C14_DoubleStepOnlyUnmoved ==
    [][DoubleStepAccepted
       => /\ lastMove'.Piece \notin relocated
          /\ lastMove'.From[2] = lastMove'.To[2]
          /\ squares[lastMove'.To] = Nil
          /\ squares[<<Mid(lastMove'.From[1], lastMove'.To[1]),
                       lastMove'.From[2]>>] = Nil]_vars

\* The grid after f2-f3, e7-e5, g2-g4, d8-h4.
FoolsMateSquares ==
    [NewBoard.squares EXCEPT ![f2] = Nil, ![f3] = NewBoard.squares[f2],
                             ![e7] = Nil, ![e5] = NewBoard.squares[e7],
                             ![g2] = Nil, ![g4] = NewBoard.squares[g2],
                             ![d8] = Nil, ![h4] = NewBoard.squares[d8]]

\* The four moves of the fool's mate have been applied through the loop,
\* d8-h4 last.
FoolsMatePlayed ==
    /\ squares = FoolsMateSquares
    /\ moveCount = 4
    /\ applied.From = d8
    /\ applied.To = h4
    /\ currentPlayer = White

\* C15: once f2-f3, e7-e5, g2-g4, d8-h4 have been played through the game
\* loop, with its queries before every move, the loop's IsCheckmate(White)
\* returns true.
C15_FoolsMate ==
    (FoolsMatePlayed /\ op = "IsCheckmate") => (ret = "true" /\ pc = "exit")

\* The loop has asked IsCheckmate(White) after the fool's mate.
C15_Witness == FoolsMatePlayed /\ op = "IsCheckmate" /\ who = White

\* The squares strictly between oldPos and newPos on the row, column or
\* diagonal that joins them.
Between(oldPos, newPos) ==
    { <<oldPos[1] + i * sign(newPos[1] - oldPos[1]),
        oldPos[2] + i * sign(newPos[2] - oldPos[2])>> :
          i \in 1 .. (max(abs(newPos[1] - oldPos[1]),
                          abs(newPos[2] - oldPos[2])) - 1) }

Straight(oldPos, newPos) == oldPos[1] = newPos[1] \/ oldPos[2] = newPos[2]

Diagonal(oldPos, newPos) ==
    abs(newPos[1] - oldPos[1]) = abs(newPos[2] - oldPos[2])

KnightJump(oldPos, newPos) ==
    {abs(newPos[1] - oldPos[1]), abs(newPos[2] - oldPos[2])} = {1, 2}

\* The movement rule of a rook, bishop, queen or knight on the grid sq.
Geometry(type, sq, oldPos, newPos) ==
    IF type = Knight THEN KnightJump(oldPos, newPos)
    ELSE /\ \/ type \in {Rook, Queen} /\ Straight(oldPos, newPos)
            \/ type \in {Bishop, Queen} /\ Diagonal(oldPos, newPos)
         /\ \A p \in Between(oldPos, newPos) : sq[p] = Nil

\* C16: for every rook, bishop, queen and knight on the board and every
\* destination on the board that holds no piece of its side, ValidateMove
\* returns nil if the move is along a row or column (rook, queen) or a
\* diagonal (bishop, queen) with every square strictly between empty, or
\* is a (2,1)/(1,2) jump (knight), and "invalid move" otherwise.
C16_PieceGeometry ==
    Running =>
        \A oldPos \in Positions : \A newPos \in Positions :
            (/\ squares[oldPos] # Nil
             /\ PieceType(squares[oldPos]) \in {Rook, Bishop, Queen, Knight}
             /\ \/ squares[newPos] = Nil
                \/ PiecePlayer(squares[newPos]) # PiecePlayer(squares[oldPos]))
            => ValidateMove(Cur, oldPos, newPos,
                            PiecePlayer(squares[oldPos])).err
                   = IF Geometry(PieceType(squares[oldPos]), squares,
                                 oldPos, newPos)
                       THEN NoErr ELSE ErrInvalid

\* White's bishop on e3 can take the pawn on a7 along a clear diagonal,
\* the knight on c3 can jump to d5, the queen on d2 cannot pass the pawn
\* on d3 and the rook on a1 cannot pass the pawn on a2.
C16_Witness ==
    /\ squares[e3] # Nil /\ PieceType(squares[e3]) = Bishop
    /\ squares[c3] # Nil /\ PieceType(squares[c3]) = Knight
    /\ squares[d2] # Nil /\ PieceType(squares[d2]) = Queen
    /\ squares[d3] # Nil /\ squares[a2] # Nil
    /\ ValidateMove(Cur, e3, <<1, 0>>, White).err = NoErr
    /\ ValidateMove(Cur, c3, d5, White).err = NoErr
    /\ ValidateMove(Cur, d2, d4, White).err = ErrInvalid
    /\ ValidateMove(Cur, a1, a3, White).err = ErrInvalid

\* C17: a call of IsInCheck, IsCheckmate or IsStalemate leaves the grid,
\* every HasMoved flag, lastMove, moveCount and both cached king positions
\* as they were before the call.
C17_QueriesArePure ==
    [][op' \in {"IsInCheck", "IsCheckmate", "IsStalemate"}
       => UNCHANGED boardVars]_vars

\* The piece on pos could capture on the square k under its kind's
\* movement rule: a pawn one row forward and one column aside, a king from
\* an adjacent square, the others as in Geometry.
CanCaptureOn(sq, pos, k) ==
    /\ pos # k
    /\ IF PieceType(sq[pos]) = Pawn
         THEN /\ k[1] - pos[1] = (IF PiecePlayer(sq[pos]) = Black THEN 1 ELSE -1)
              /\ abs(k[2] - pos[2]) = 1
       ELSE IF PieceType(sq[pos]) = King
         THEN abs(k[1] - pos[1]) <= 1 /\ abs(k[2] - pos[2]) <= 1
       ELSE Geometry(PieceType(sq[pos]), sq, pos, k)

\* Some opposing piece could capture on a square that holds player's king.
KingCapturable(sq, player) ==
    \E k \in KingSquares(sq, player) : \E pos \in Positions :
        /\ sq[pos] # Nil
        /\ PiecePlayer(sq[pos]) # player
        /\ CanCaptureOn(sq, pos, k)

\* IsInCheck, called for player on the board B, answers whether player's
\* king can be captured where it stands.
InCheckExact(B, player) ==
    IsInCheck(B, player) <=> KingCapturable(B.squares, player)

\* The boards on which validateCastling calls IsInCheck with player's king
\* put on the square it passes over, for the castling moves of the king
\* standing on the cached square.
TransitBoards(B, player) ==
    { transitBoard(B, B.squares[kingPosOf(B, player)],
                   kingPosOf(B, player), newPos) :
        newPos \in { q \in Positions :
            /\ B.squares[kingPosOf(B, player)] # Nil
            /\ PieceType(B.squares[kingPosOf(B, player)]) = King
            /\ castlingReachesCheck(B, B.squares[kingPosOf(B, player)],
                                    kingPosOf(B, player), q)
            /\ castlingKingSafe(B, B.squares[kingPosOf(B, player)]) } }

\* C18: IsInCheck(P) returns true exactly when an opposing piece could
\* capture on the square of P's king under its movement rule (a pawn only
\* diagonally forward, a sliding piece only along a clear path, a king
\* only from an adjacent square): on the board between calls, and on the
\* boards validateCastling calls it on.
C18_InCheckIffCapturable ==
    Running =>
        \A player \in Player :
            /\ InCheckExact(Cur, player)
            /\ \A B \in TransitBoards(Cur, player) : InCheckExact(B, player)

\* The square q is scanned before the square pos by the loops of IsInCheck.
ScannedBefore(q, pos) == q[1] < pos[1] \/ (q[1] = pos[1] /\ q[2] < pos[2])

\* IsInCheck(player) on the board B gets to a nested IsInCheck call: its
\* scan reaches the opposing king on pos (no piece scanned before it could
\* capture on the cached king position), ValidateMove passes that king's
\* move onto the cached position to validateCastling, and validateCastling
\* gets as far as its IsInCheck calls.
NestedAt(B, player, pos) ==
    LET kingPos == kingPosOf(B, player)
        piece == B.squares[pos]
    IN  /\ piece # Nil
        /\ PiecePlayer(piece) # player
        /\ PieceType(piece) = King
        /\ B.squares[kingPos] = Nil \/ PiecePlayer(B.squares[kingPos]) = player
        /\ ~(abs(kingPos[1] - pos[1]) <= 1 /\ abs(kingPos[2] - pos[2]) <= 1)
        /\ castlingReachesCheck(B, piece, pos, kingPos)
        /\ \A q \in Positions :
               (/\ ScannedBefore(q, pos)
                /\ B.squares[q] # Nil
                /\ PiecePlayer(B.squares[q]) # player)
               => ~canCapture(B, B.squares[q], q, kingPos,
                              ValidateMove(B, q, kingPos,
                                           PiecePlayer(B.squares[q])))

\* C19: in every state, for either player P, IsInCheck(P) never gets to a
\* nested IsInCheck call: the castling validation it enters for the
\* opposing king and P's cached king position returns false before its
\* own IsInCheck calls.
C19_NoNestedInCheck ==
    Running =>
        \A player \in Player : \A pos \in Positions :
            ~NestedAt(Cur, player, pos)

\* The row from which a pawn of player captures en passant: Black's fifth
\* row from its back rank, White's likewise.
CapturingRank(player) == IF player = Black THEN 4 ELSE 3

\* The last move applied was an opposing pawn's two-square advance that
\* landed beside the pawn of currentPlayer on oldPos, which stands on its
\* capturing rank, and newPos is the square that pawn passed over.
EnPassantDue(oldPos, newPos) ==
    /\ oldPos[1] = CapturingRank(currentPlayer)
    /\ applied.Piece # Nil
    /\ PieceType(applied.Piece) = Pawn
    /\ PiecePlayer(applied.Piece) # currentPlayer
    /\ applied.From[2] = applied.To[2]
    /\ abs(applied.To[1] - applied.From[1]) = 2
    /\ squares[oldPos] # Nil
    /\ PieceType(squares[oldPos]) = Pawn
    /\ PiecePlayer(squares[oldPos]) = currentPlayer
    /\ oldPos[1] = applied.To[1]
    /\ abs(oldPos[2] - applied.To[2]) = 1
    /\ newPos = <<Mid(applied.From[1], applied.To[1]), applied.To[2]>>

\* C20: when the game loop reads a line, after its IsCheckmate and
\* IsStalemate calls, and the opponent's last move was a pawn's two-square
\* advance landing beside a pawn of the side to move, Move accepts the
\* en-passant capture of that pawn, or rejects it only for leaving the
\* king in check.
C20_EnPassantInGameLoop ==
    (Running /\ pc = "Scan")
        => \A oldPos \in Positions : \A newPos \in Positions :
               EnPassantDue(oldPos, newPos)
                   => Move(Cur, oldPos, newPos, currentPlayer).err
                          \in {NoErr, ErrCheck}

====
